---- MODULE Spec2Model ----
(***************************************************************************)
(* Model of soil.py: the crop registry built at import time, the crop      *)
(* validator, the rule engine, the Gemini client and the analyze_soil      *)
(* pipeline.                                                               *)
(*                                                                         *)
(* Conventions                                                             *)
(*   - a Python str used as a crop name is a sequence of one-character     *)
(*     strings, so that strip(), lower(), startswith() and sorted() are    *)
(*     computed character by character;                                    *)
(*   - pH values are in tenths (7.0 is 70), confidence in hundredths       *)
(*     (0.80 is 80); the other readings are whole-valued floats;           *)
(*   - the Devanagari strings of the source are written in Latin           *)
(*     transliteration (the module text is ASCII).                         *)
(***************************************************************************)
EXTENDS Integers, Sequences, FiniteSets, TLC

VARIABLES
    VALID_CROPS,         \* module global, soil.py:18-37,82,89
    CROP_PROFILES,       \* module global, soil.py:43-63,79,87,93
    GEMINI_KEY,          \* TRUE iff the key string is non-empty, soil.py:130
    REQUESTS_AVAILABLE,  \* soil.py:117-122
    soil,                \* the SoilReading handed to analyze_soil
    pc,                  \* position of analyze_soil
    ai,                  \* local `ai` of analyze_soil
    returned,            \* the decisions analyze_soil has returned (<<>> or <<d>>)
    path,                \* which return statement was taken
    n_call_gemini,       \* invocations of call_gemini
    n_post,              \* requests.post calls made
    n_rule_engine        \* invocations of rule_engine

vars == << VALID_CROPS, CROP_PROFILES, GEMINI_KEY, REQUESTS_AVAILABLE,
           soil, pc, ai, returned, path, n_call_gemini, n_post, n_rule_engine >>

(***************************************************************************)
(* Python str operations on crop names                                     *)
(***************************************************************************)

\* The characters used, in code-point order (space < A-Z < _ < a-z).
Alphabet ==
    << " ", "A", "B", "C", "D", "E", "F", "G", "H", "I", "J", "K", "L", "M",
       "N", "O", "P", "Q", "R", "S", "T", "U", "V", "W", "X", "Y", "Z", "_",
       "a", "b", "c", "d", "e", "f", "g", "h", "i", "j", "k", "l", "m", "n",
       "o", "p", "q", "r", "s", "t", "u", "v", "w", "x", "y", "z" >>

Chars == { Alphabet[i] : i \in 1..Len(Alphabet) }

Ord == [ ch \in Chars |-> CHOOSE i \in 1..Len(Alphabet) : Alphabet[i] = ch ]

\* str.lower() on one character: A-Z (positions 2..27) map to a-z (29..54).
LowerChar(ch) == IF Ord[ch] \in 2..27 THEN Alphabet[Ord[ch] + 27] ELSE ch

\* str.lower()
Lower(s) == [ i \in 1..Len(s) |-> LowerChar(s[i]) ]

IsSpace(ch) == ch = " "

RECURSIVE LStrip(_)
LStrip(s) == IF s # <<>> /\ IsSpace(s[1]) THEN LStrip(Tail(s)) ELSE s

RECURSIVE RStrip(_)
RStrip(s) ==
    IF s # <<>> /\ IsSpace(s[Len(s)]) THEN RStrip(SubSeq(s, 1, Len(s) - 1)) ELSE s

\* str.strip()
Strip(s) == RStrip(LStrip(s))

\* str.startswith()
StartsWith(s, p) == Len(p) <= Len(s) /\ SubSeq(s, 1, Len(p)) = p

\* s < t in Python's str ordering (lexicographic by code point)
RECURSIVE StrLess(_, _)
StrLess(s, t) ==
    IF t = <<>> THEN FALSE
    ELSE IF s = <<>> THEN TRUE
    ELSE IF s[1] # t[1] THEN Ord[s[1]] < Ord[t[1]]
    ELSE StrLess(Tail(s), Tail(t))

\* sorted(set_of_str): the least name, then the rest sorted
SortedNames[S \in SUBSET Seq(Chars)] ==
    IF S = {} THEN <<>>
    ELSE LET m == CHOOSE x \in S : \A y \in S \ {x} : StrLess(x, y)
         IN  <<m>> \o SortedNames[S \ {m}]

Sorted(S) == SortedNames[S]

\* a crop name as one TLC string (for placing it in a decision's text fields)
RECURSIVE Text(_)
Text(s) == IF s = <<>> THEN "" ELSE s[1] \o Text(Tail(s))

(***************************************************************************)
(* The registry built at import time                                       *)
(***************************************************************************)

DEFAULT == << "_", "d", "e", "f", "a", "u", "l", "t" >>

BuiltinValidCrops ==
    { <<"r", "i", "c", "e">>,
      <<"w", "h", "e", "a", "t">>,
      <<"m", "a", "i", "z", "e">>,
      <<"c", "o", "r", "n">>,
      <<"s", "u", "g", "a", "r", "c", "a", "n", "e">>,
      <<"c", "o", "t", "t", "o", "n">>,
      <<"s", "o", "y", "b", "e", "a", "n">>,
      <<"p", "o", "t", "a", "t", "o">>,
      <<"t", "o", "m", "a", "t", "o">>,
      <<"b", "a", "n", "a", "n", "a">>,
      <<"m", "i", "l", "l", "e", "t">>,
      <<"b", "a", "r", "l", "e", "y">>,
      <<"g", "r", "o", "u", "n", "d", "n", "u", "t">>,
      <<"p", "e", "a">>,
      <<"l", "e", "n", "t", "i", "l">>,
      <<"m", "u", "s", "t", "a", "r", "d">>,
      <<"s", "u", "n", "f", "l", "o", "w", "e", "r">>,
      <<"c", "h", "i", "l", "i">>,
      <<"o", "n", "i", "o", "n">>,
      <<"c", "a", "u", "l", "i", "f", "l", "o", "w", "e", "r">>,
      <<"b", "r", "i", "n", "j", "a", "l">>,
      <<"g", "r", "a", "p", "e", "s">>,
      <<"a", "p", "p", "l", "e">>,
      <<"o", "r", "a", "n", "g", "e">>,
      <<"m", "a", "n", "g", "o">>,
      <<"t", "e", "a">>,
      <<"c", "o", "f", "f", "e", "e">> }

DefaultProfile ==
    [ moisture  |-> [ min |-> 35 ],
      nitrogen  |-> [ min |-> 250, recommendation |-> "Apply 50kg urea per acre" ],
      potassium |-> [ min |-> 150, recommendation |-> "Apply 30kg potash per acre" ],
      ph        |-> [ min |-> 60, max |-> 80 ] ]

BuiltinCropProfiles ==
    ( <<"c", "o", "r", "n">> :>
        [ moisture  |-> [ min |-> 40 ],
          nitrogen  |-> [ min |-> 300, recommendation |-> "Apply 60kg urea per acre" ],
          potassium |-> [ min |-> 160, recommendation |-> "Apply 40kg potash per acre" ],
          ph        |-> [ min |-> 60, max |-> 75 ] ] )
    @@
    ( <<"s", "u", "g", "a", "r", "c", "a", "n", "e">> :>
        [ moisture  |-> [ min |-> 45 ],
          nitrogen  |-> [ min |-> 350, recommendation |-> "Apply 80kg urea per acre" ],
          potassium |-> [ min |-> 220, recommendation |-> "Apply 60kg potash per acre" ],
          ph        |-> [ min |-> 60, max |-> 80 ] ] )
    @@
    ( DEFAULT :> DefaultProfile )

\* ---- JSON values of crops.json -------------------------------------------
\* A JSON value is [t, items, d]: t = "list" with its items (strings), or
\* t = "dict" with d either a profile (a record) or, for an object of named
\* members, the sequence of its <<key, value>> members in file order.
JList(items) == [ t |-> "list", items |-> items, d |-> <<>> ]
JDict(d)     == [ t |-> "dict", items |-> <<>>, d |-> d ]

IsList(v) == v.t = "list"
IsDict(v) == v.t = "dict"

KEY_crops    == << "c", "r", "o", "p", "s" >>
KEY_profiles == << "p", "r", "o", "f", "i", "l", "e", "s" >>

\* `key in data` for an object given as its members
HasKey(members, key) == \E i \in 1..Len(members) : members[i][1] = key

\* data[key]: the last member of that name
Member(members, key) ==
    LET i == CHOOSE j \in 1..Len(members) :
                 /\ members[j][1] = key
                 /\ \A k \in (j + 1)..Len(members) : members[k][1] # key
    IN  members[i][2]

\* set([str(x).strip() for x in arr if str(x).strip()])
StrippedNames(items) ==
    { Strip(items[i]) : i \in { j \in 1..Len(items) : Strip(items[j]) # <<>> } }

\* soil.py:27-37 : the first read of crops.json
LoadCropList(file) ==
    IF file.exists /\ file.parses /\ IsList(file.data) /\ file.data.items # <<>>
    THEN StrippedNames(file.data.items)
    ELSE BuiltinValidCrops

\* soil.py:77-79 : for k, v in profiles.items(): if isinstance(v, dict): ...
RECURSIVE OverlayProfiles(_, _)
OverlayProfiles(profiles, members) ==
    IF members = <<>> THEN profiles
    ELSE LET k == members[1][1]
             v == members[1][2]
         IN  OverlayProfiles(
                 IF IsDict(v) THEN (Lower(Strip(k)) :> v.d) @@ profiles ELSE profiles,
                 Tail(members))

\* soil.py:84-87, 90-93 : every crop gets a profile, the default when missing
FillDefaults(profiles, crops) ==
    [ k \in (DOMAIN profiles) \cup { Lower(Strip(c)) : c \in crops } |->
        IF k \in DOMAIN profiles THEN profiles[k] ELSE profiles[DEFAULT] ]

\* soil.py:82, 89 : the crop list united with the profile keys
CropsWithProfileKeys(items, profiles) ==
    StrippedNames(items) \cup ((DOMAIN profiles) \ {DEFAULT})

\* soil.py:68-96 : the second read of crops.json; the pair (VALID_CROPS, CROP_PROFILES)
LoadRegistry(file) ==
    LET crops0 == LoadCropList(file)
    IN
    IF ~(file.exists /\ file.parses) THEN << crops0, BuiltinCropProfiles >>
    ELSE IF IsDict(file.data) THEN
        LET data     == file.data.d
            profiles == IF HasKey(data, KEY_profiles)
                        THEN Member(data, KEY_profiles)
                        ELSE file.data
            overlaid == IF IsDict(profiles)
                        THEN OverlayProfiles(BuiltinCropProfiles, profiles.d)
                        ELSE BuiltinCropProfiles
        IN  IF HasKey(data, KEY_crops) /\ IsList(Member(data, KEY_crops))
            THEN LET crops == CropsWithProfileKeys(Member(data, KEY_crops).items, overlaid)
                 IN  << crops, FillDefaults(overlaid, crops) >>
            ELSE << crops0, overlaid >>
    ELSE IF IsList(file.data) THEN
        LET crops == CropsWithProfileKeys(file.data.items, BuiltinCropProfiles)
        IN  << crops, FillDefaults(BuiltinCropProfiles, crops) >>
    ELSE << crops0, BuiltinCropProfiles >>

(***************************************************************************)
(* Profile lookup and crop validation                                      *)
(***************************************************************************)

\* soil.py:98-103
get_crop_profile(name) ==
    IF name = <<>> THEN CROP_PROFILES[DEFAULT]
    ELSE IF Lower(Strip(name)) \in DOMAIN CROP_PROFILES
         THEN CROP_PROFILES[Lower(Strip(name))]
         ELSE CROP_PROFILES[DEFAULT]

\* soil.py:105-107
is_valid_crop(name) ==
    IF name = <<>> THEN FALSE ELSE Lower(Strip(name)) \in VALID_CROPS

\* the default of suggest_crops' parameter `limit`
SUGGEST_LIMIT == 20

\* soil.py:109-114
suggest_crops(prefix, limit) ==
    LET p == Lower(Strip(prefix))
        Matches(c) == StartsWith(Lower(c), p)
        matches == SelectSeq(Sorted(VALID_CROPS), Matches)
    IN  IF p = <<>> THEN <<>>
        ELSE SubSeq(matches, 1, IF Len(matches) < limit THEN Len(matches) ELSE limit)

(***************************************************************************)
(* Python values held by an AIDecision                                     *)
(***************************************************************************)

PyStr(x)   == [ type |-> "str",   s |-> x,  n |-> 0, l |-> <<>> ]
PyInt(x)   == [ type |-> "int",   s |-> "", n |-> x, l |-> <<>> ]
PyFloat(x) == [ type |-> "float", s |-> "", n |-> x, l |-> <<>> ]   \* hundredths
PyList(x)  == [ type |-> "list",  s |-> "", n |-> 0, l |-> x ]

\* soil.py:151-160 : the required fields of AIDecision, and the optional one
RequiredFields == { "action", "priority", "confidence", "reasoning",
                    "recommendations", "recommendations_hindi", "next_check_hours" }
OptionalFields == { "timestamp" }

\* the timestamp is set by __post_init__ and is left out of the model
AIDecision(action, priority, confidence, reasoning, recs, recs_hindi, next_check) ==
    [ action                |-> action,
      priority              |-> priority,
      confidence            |-> confidence,
      reasoning             |-> reasoning,
      recommendations       |-> recs,
      recommendations_hindi |-> recs_hindi,
      next_check_hours      |-> next_check ]

(***************************************************************************)
(* The rule engine                                                         *)
(***************************************************************************)

\* dict.get(key, default)
Get(d, key, default) == IF key \in DOMAIN d THEN d[key] ELSE default

EmptyDict == <<>>

Max(a, b) == IF a >= b THEN a ELSE b

\* f"{x}" for a whole-valued float
FormatFloat(x) == ToString(x) \o ".0"

\* f"{x}" for a float given in tenths
FormatTenths(x) == ToString(x \div 10) \o "." \o ToString(x % 10)

\* "; ".join(parts)
RECURSIVE JoinParts(_)
JoinParts(parts) ==
    IF parts = <<>> THEN ""
    ELSE IF Len(parts) = 1 THEN parts[1]
    ELSE parts[1] \o "; " \o JoinParts(Tail(parts))

Advice(rec, rec_hi, reason) == [ rec |-> rec, rec_hi |-> rec_hi, reason |-> reason ]

\* soil.py:229
moisture_min(profile) == Get(Get(profile, "moisture", EmptyDict), "min", 35)

\* a slip in the constant of the critical level
CriticalMoistureLevel_Within5(min) == Max(20, min - 5)

\* soil.py:230 : the level below which moisture is critical
CriticalMoistureLevel(min) == Max(20, min - 15)

\* the elif's test with <= for <
BelowOptimalMoisture_Inclusive(moisture, min) == moisture <= min

\* soil.py:234 : the test of the elif
BelowOptimalMoisture(moisture, min) == moisture < min

\* soil.py:228-237
MoistureAdvice(s, profile) ==
    IF s.moisture < CriticalMoistureLevel(moisture_min(profile))
    THEN << Advice("Irrigate immediately", "turant sinchai karen",
                   "Moisture critically low at " \o FormatFloat(s.moisture) \o "%") >>
    ELSE IF BelowOptimalMoisture(s.moisture, moisture_min(profile))
    THEN << Advice("Irrigate soon", "jald sinchai karen",
                   "Moisture is " \o FormatFloat(s.moisture) \o "%, below crop optimal of "
                       \o ToString(moisture_min(profile)) \o "%") >>
    ELSE <<>>

\* soil.py:239-245
NitrogenAdvice(s, profile) ==
    LET n_min == Get(Get(profile, "nitrogen", EmptyDict), "min", 250)
        n_rec == Get(Get(profile, "nitrogen", EmptyDict), "recommendation",
                     "Apply 50kg urea per acre")
    IN  IF s.nitrogen < n_min
        THEN << Advice(n_rec, "urea aavashyak",
                       "Nitrogen deficiency detected at " \o FormatFloat(s.nitrogen)
                           \o " mg/kg (target " \o ToString(n_min) \o ")") >>
        ELSE <<>>

\* soil.py:247-253 ; k_min is None when the profile has no potassium minimum
PotassiumAdvice(s, profile) ==
    LET potassium == Get(profile, "potassium", EmptyDict)
        k_rec == Get(potassium, "recommendation", "Apply potash as needed")
    IN  IF "min" \in DOMAIN potassium /\ s.potassium < potassium["min"]
        THEN << Advice(k_rec, "potash ki aavashyakta",
                       "Potassium low at " \o FormatFloat(s.potassium)
                           \o " mg/kg (target " \o ToString(potassium["min"]) \o ")") >>
        ELSE <<>>

\* soil.py:255-259 : a reasoning fragment only
PhReasoning(s, profile) ==
    LET ph_min == Get(Get(profile, "ph", EmptyDict), "min", 60)
        ph_max == Get(Get(profile, "ph", EmptyDict), "max", 80)
    IN  IF s.ph < ph_min \/ s.ph > ph_max
        THEN << "Soil pH " \o FormatTenths(s.ph) \o " is outside ideal range ("
                    \o FormatTenths(ph_min) \o "-" \o FormatTenths(ph_max) \o ")" >>
        ELSE <<>>

\* escalating on any recommendation
NeedsAttention_Any(rec) == Len(rec) > 0

\* soil.py:269,270,275 : len(rec) > 1
NeedsAttention(rec) == Len(rec) > 1

\* soil.py:221-276 with the profile as a parameter
Evaluate(s, profile) ==
    LET found   == MoistureAdvice(s, profile) \o NitrogenAdvice(s, profile)
                       \o PotassiumAdvice(s, profile)
        parts0  == [ i \in 1..Len(found) |-> found[i].reason ] \o PhReasoning(s, profile)
        healthy == found = <<>>
        rec     == IF healthy THEN << "Soil healthy, maintain regular care" >>
                   ELSE [ i \in 1..Len(found) |-> found[i].rec ]
        rec_hi  == IF healthy THEN << "mitti achchhi hai, niyamit dekhbhal karen" >>
                   ELSE [ i \in 1..Len(found) |-> found[i].rec_hi ]
        parts   == IF healthy
                   THEN Append(parts0, "All soil parameters within optimal ranges")
                   ELSE parts0
        reasoning == IF parts # <<>> THEN JoinParts(parts) ELSE "Soil analysis complete"
    IN  AIDecision(
            PyStr(IF NeedsAttention(rec) THEN "ATTENTION_NEEDED" ELSE "ALL_GOOD"),
            PyStr(IF NeedsAttention(rec) THEN "HIGH" ELSE "LOW"),
            PyFloat(80),
            PyStr(reasoning),
            PyList(rec),
            PyList(rec_hi),
            PyInt(IF NeedsAttention(rec) THEN 6 ELSE 12))

\* soil.py:221-226 : rule_engine resolves the profile from the reading's crop
rule_engine(s) == Evaluate(s, get_crop_profile(s.crop_type))

(***************************************************************************)
(* The Gemini client                                                       *)
(***************************************************************************)

\* What analyze_soil's local `ai` can hold.
None          == [ kind |-> "None",  text |-> <<>> ]
StrValue(t)   == [ kind |-> "str",   text |-> t ]
OtherValue    == [ kind |-> "other", text |-> <<>> ]    \* a non-empty dict or list

\* Python truthiness of `ai`
Truthy(v) == (v.kind = "str" /\ v.text # <<>>) \/ v.kind = "other"

\* A reply text is a sequence of tokens: the Markdown fence marker (three
\* backquotes, written "[fence]" here), the word "json", other prose, or one
\* JSON document.
NoDoc == [ syntax_ok |-> FALSE, t |-> "none", fields |-> <<>> ]
Tok(t) == [ tok |-> t, doc |-> NoDoc ]
FENCE == Tok("[fence]")
JSON_WORD == Tok("json")
PROSE == Tok("Here is the analysis:")
\* a complete JSON object with these members
ObjectDoc(fields) == [ tok |-> "doc",
                       doc |-> [ syntax_ok |-> TRUE, t |-> "object", fields |-> fields ] ]
\* a JSON object cut off before its end
TruncatedDoc(fields) == [ tok |-> "doc",
                          doc |-> [ syntax_ok |-> FALSE, t |-> "object", fields |-> fields ] ]
\* a complete JSON document that is no object: "array", "null"
ScalarDoc(t) == [ tok |-> "doc", doc |-> [ syntax_ok |-> TRUE, t |-> t, fields |-> <<>> ] ]

\* soil.py:203-204 : `except: return None`
OnRequestError == None

\* soil.py:199-204 : the value call_gemini returns once requests.post has ended
\* with `response`
GeminiReturn(response) ==
    IF response.kind \in { "post_raises", "body_not_json", "bad_envelope" }
    THEN OnRequestError
    ELSE response.value

(***************************************************************************)
(* Parsing the reply                                                       *)
(***************************************************************************)

\* str.replace(old, "") on token sequences
RECURSIVE Replace(_, _)
Replace(text, old) ==
    IF Len(text) < Len(old) THEN text
    ELSE IF SubSeq(text, 1, Len(old)) = old
         THEN Replace(SubSeq(text, Len(old) + 1, Len(text)), old)
         ELSE << text[1] >> \o Replace(Tail(text), old)

\* soil.py:333
StripFences(text) == Replace(Replace(text, << FENCE, JSON_WORD >>), << FENCE >>)

Raised == [ ok |-> FALSE, value |-> NoDoc ]

\* json.loads: one well-formed document and nothing else, or JSONDecodeError
json_loads(text) ==
    IF Len(text) = 1 /\ text[1].tok = "doc" /\ text[1].doc.syntax_ok
    THEN [ ok |-> TRUE, value |-> text[1].doc ]
    ELSE Raised

\* AIDecision(**data): TypeError unless data is a mapping whose keys are
\* fields of the dataclass and include every field without a default. The
\* dataclass checks no field's type.
MakeAIDecision(data) ==
    IF /\ data.t = "object"
       /\ DOMAIN data.fields \subseteq RequiredFields \cup OptionalFields
       /\ RequiredFields \subseteq DOMAIN data.fields
    THEN [ ok |-> TRUE, value |-> [ f \in RequiredFields |-> data.fields[f] ] ]
    ELSE Raised

\* soil.py:332-335 : the body of the try
TryParse(v) ==
    IF v.kind # "str" THEN Raised    \* no .replace on a non-str
    ELSE LET loaded == json_loads(StripFences(v.text))
         IN  IF loaded.ok THEN MakeAIDecision(loaded.value) ELSE Raised

\* an except clause that lets the error through
OnParseError_Propagate == "RAISED"

\* a handler that asks the model again
OnParseError_Retry == "REMOTE_ATTEMPT"

\* soil.py:336-337 : `except: pass` falls through to the rule engine
OnParseError == "FALLBACK"

(***************************************************************************)
(* analyze_soil                                                            *)
(***************************************************************************)

\* the branch on `suggestions` left out
InvalidCropRecommendations_NoElse(crop_type) ==
    << "Enter a valid crop name. Suggestions:" >>
        \o [ i \in 1..Len(suggest_crops(crop_type, SUGGEST_LIMIT)) |->
                Text(suggest_crops(crop_type, SUGGEST_LIMIT)[i]) ]

\* soil.py:286-290
InvalidCropRecommendations(crop_type) ==
    LET suggestions == suggest_crops(crop_type, SUGGEST_LIMIT)
    IN  IF suggestions # <<>>
        THEN << "Enter a valid crop name. Suggestions:" >>
                 \o [ i \in 1..Len(suggestions) |-> Text(suggestions[i]) ]
        ELSE << "Enter the valid crop name" >>

\* soil.py:292-300
InvalidCropDecision(s) ==
    AIDecision(PyStr("INVALID_CROP"), PyStr("LOW"), PyFloat(0),
               PyStr("Crop '" \o Text(s.crop_type) \o "' is not recognized."),
               PyList(InvalidCropRecommendations(s.crop_type)), PyList(<<>>), PyInt(0))

\* soil.py:285-300 : the crop check; an invalid crop returns at once
Validate ==
    /\ pc = "VALIDATING"
    /\ IF ~is_valid_crop(soil.crop_type)
       THEN /\ returned' = << InvalidCropDecision(soil) >>
            /\ path' = "REJECTED"
            /\ pc' = "DONE"
       ELSE /\ pc' = "REMOTE_ATTEMPT"
            /\ UNCHANGED << returned, path >>
    /\ UNCHANGED << VALID_CROPS, CROP_PROFILES, GEMINI_KEY,
                    REQUESTS_AVAILABLE, soil, ai, n_call_gemini, n_post, n_rule_engine >>

\* soil.py:329, 197-198 : call_gemini returns None without a request
CallGeminiUnavailable ==
    /\ pc = "REMOTE_ATTEMPT"
    /\ ~GEMINI_KEY \/ ~REQUESTS_AVAILABLE
    /\ n_call_gemini' = n_call_gemini + 1
    /\ ai' = None
    /\ pc' = "PARSING"
    /\ UNCHANGED << VALID_CROPS, CROP_PROFILES, GEMINI_KEY,
                    REQUESTS_AVAILABLE, soil, returned, path, n_post, n_rule_engine >>

\* soil.py:329, 199-201 : call_gemini posts the prompt (no timeout is passed)
CallGeminiPost ==
    /\ pc = "REMOTE_ATTEMPT"
    /\ GEMINI_KEY /\ REQUESTS_AVAILABLE
    /\ n_call_gemini' = n_call_gemini + 1
    /\ n_post' = n_post + 1
    /\ pc' = "AWAIT_RESPONSE"
    /\ UNCHANGED << VALID_CROPS, CROP_PROFILES, GEMINI_KEY,
                    REQUESTS_AVAILABLE, soil, ai, returned, path, n_rule_engine >>
(***************************************************************************)
(* Inputs                                                                  *)
(***************************************************************************)

\* A decision as the prompt asks for it.
GoodFields ==
    [ action                |-> PyStr("ATTENTION_NEEDED"),
      priority              |-> PyStr("HIGH"),
      confidence            |-> PyFloat(90),
      reasoning             |-> PyStr("Nitrogen is low"),
      recommendations       |-> PyList(<< "Apply urea", "Irrigate" >>),
      recommendations_hindi |-> PyList(<< "urea", "sinchai" >>),
      next_check_hours      |-> PyInt(6) ]

Without(fields, f) == [ k \in (DOMAIN fields) \ {f} |-> fields[k] ]

\* The reply texts tried.
ReplyTexts ==
    { << >>,                                                    \* the empty string
      << ObjectDoc(GoodFields) >>,
      << FENCE, JSON_WORD, ObjectDoc(GoodFields), FENCE >>,
      << FENCE, ObjectDoc(GoodFields), FENCE >>,
      << PROSE, FENCE, JSON_WORD, ObjectDoc(GoodFields), FENCE >>,
      << PROSE >>,
      << TruncatedDoc(GoodFields) >>,
      << ObjectDoc(Without(GoodFields, "next_check_hours")) >>,
      << ObjectDoc(GoodFields @@ [ notes |-> PyStr("n/a") ]) >>,
      << ObjectDoc(GoodFields @@ [ timestamp |-> PyStr("2024-01-01T00:00:00") ]) >>,
      << ObjectDoc([ confidence |-> PyStr("high"),
                     recommendations |-> PyStr("water the field") ] @@ GoodFields) >>,
      << ObjectDoc([ action |-> PyStr("IRRIGATE_NOW"), priority |-> PyStr("URGENT"),
                     confidence |-> PyFloat(150), next_check_hours |-> PyInt(-1) ]
                   @@ GoodFields) >>,
      << ScalarDoc("array") >>,
      << ScalarDoc("null") >> }

\* What the request can end with: requests.post raises (network failure),
\* r.json() raises (a body that is no JSON), the envelope lacks
\* candidates[0].content.parts[0].text (an error object), or that member is
\* there, a str or not.
RemoteResponses ==
    { [ kind |-> k, value |-> None ] : k \in { "post_raises", "body_not_json", "bad_envelope" } }
    \cup { [ kind |-> "text", value |-> StrValue(t) ] : t \in ReplyTexts }
    \cup { [ kind |-> "text", value |-> OtherValue ] }

\* crops.json as found at import time.
NoFile        == [ exists |-> FALSE, parses |-> FALSE, data |-> JList(<<>>) ]
MalformedFile == [ exists |-> TRUE,  parses |-> FALSE, data |-> JList(<<>>) ]
ListFile ==
    [ exists |-> TRUE, parses |-> TRUE,
      data |-> JList(<< <<"W", "h", "e", "a", "t">>,
                        <<"w", "h", "e", "a", "t", "g", "r", "a", "s", "s">>,
                        <<" ", "R", "a", "g", "i", " ">> >>) ]
ObjectFile ==
    [ exists |-> TRUE, parses |-> TRUE,
      data |-> JDict(<<
        << KEY_crops, JList(<< <<"J", "o", "w", "a", "r">>,
                               <<"t", "o", "m", "a", "t", "o">>, <<" ">> >>) >>,
        << KEY_profiles, JDict(<<
            << <<"R", "a", "g", "i">>,
               JDict([ moisture |-> [ min |-> 15 ],
                       nitrogen |-> [ min |-> 220, recommendation |-> "Apply 40kg urea per acre" ],
                       ph       |-> [ min |-> 55, max |-> 75 ] ]) >>,
            << <<"B", "a", "j", "r", "a", " ">>,
               JDict([ moisture |-> [ min |-> 30 ] ]) >> >>) >> >>) ]
MappingFile ==
    [ exists |-> TRUE, parses |-> TRUE,
      data |-> JDict(<<
        << <<"m", "i", "l", "l", "e", "t">>,
           JDict([ moisture  |-> [ min |-> 20 ],
                   nitrogen  |-> [ min |-> 200 ],
                   potassium |-> [ recommendation |-> "Apply 20kg potash per acre" ] ]) >>,
        << <<"B", "a", "r", "l", "e", "y">>,
           JDict([ moisture  |-> [ min |-> 15 ],
                   nitrogen  |-> [ min |-> 250, recommendation |-> "Apply 45kg urea per acre" ],
                   potassium |-> [ min |-> 150 ],
                   ph        |-> [ min |-> 60, max |-> 80 ] ]) >> >>) ]

CropsJsonFiles == { NoFile, MalformedFile, ListFile, ObjectFile, MappingFile }

CropTypes ==
    { <<"w", "h", "e", "a", "t">>,
      <<"W", "h", "e", "a", "t">>,
      <<" ", "w", "h", "e", "a", "t", " ">>,
      <<"w", "h">>,
      << >>,
      <<" ">>,
      <<"c", "o", "r", "n">>,
      <<"S", "u", "g", "a", "r", "c", "a", "n", "e">>,
      <<"x", "y", "z">>,
      <<"b", "a", "r", "l", "e", "y">>,
      <<"m", "i", "l", "l", "e", "t">>,
      <<"R", "a", "g", "i">> }

\* The largest moisture reading tried.
MaxMoisture == 45

MoistureValues  == 14..MaxMoisture
NitrogenValues  == { 200, 320 }
PotassiumValues == { 140, 180 }
PhValues        == { 55, 70 }

\* soil.py:134-146 : the fields of SoilReading the pipeline reads (the others
\* only appear in the prompt text)
SoilReadings ==
    [ moisture : MoistureValues, nitrogen : NitrogenValues,
      potassium : PotassiumValues, ph : PhValues, crop_type : CropTypes ]

(***************************************************************************)
(* analyze_soil, continued                                                 *)
(***************************************************************************)

\* soil.py:201-204 : the request ends and call_gemini returns
RemoteResponds ==
    /\ pc = "AWAIT_RESPONSE"
    /\ \E response \in RemoteResponses : ai' = GeminiReturn(response)
    /\ pc' = "PARSING"
    /\ UNCHANGED << VALID_CROPS, CROP_PROFILES, GEMINI_KEY,
                    REQUESTS_AVAILABLE, soil, returned, path,
                    n_call_gemini, n_post, n_rule_engine >>

\* soil.py:331-337 : `if ai:` and the try/except around the parse
Parse ==
    /\ pc = "PARSING"
    /\ IF Truthy(ai)
       THEN LET parsed == TryParse(ai)
            IN  IF parsed.ok
                THEN /\ returned' = << parsed.value >>
                     /\ path' = "ACCEPTED"
                     /\ pc' = "DONE"
                ELSE /\ pc' = OnParseError
                     /\ UNCHANGED << returned, path >>
       ELSE /\ pc' = "FALLBACK"
            /\ UNCHANGED << returned, path >>
    /\ UNCHANGED << VALID_CROPS, CROP_PROFILES, GEMINI_KEY,
                    REQUESTS_AVAILABLE, soil, ai, n_call_gemini, n_post, n_rule_engine >>

\* soil.py:339
Fallback ==
    /\ pc = "FALLBACK"
    /\ n_rule_engine' = n_rule_engine + 1
    /\ returned' = << rule_engine(soil) >>
    /\ path' = "FALLBACK"
    /\ pc' = "DONE"
    /\ UNCHANGED << VALID_CROPS, CROP_PROFILES, GEMINI_KEY,
                    REQUESTS_AVAILABLE, soil, ai, n_call_gemini, n_post >>

\* The module has been imported and analyze_soil is entered with a reading.
Init ==
    /\ \E crops_json \in CropsJsonFiles :
           /\ VALID_CROPS = LoadRegistry(crops_json)[1]
           /\ CROP_PROFILES = LoadRegistry(crops_json)[2]
    /\ GEMINI_KEY \in BOOLEAN
    /\ REQUESTS_AVAILABLE \in BOOLEAN
    /\ soil \in SoilReadings
    /\ pc = "VALIDATING"
    /\ ai = None
    /\ returned = << >>
    /\ path = "NONE"
    /\ n_call_gemini = 0
    /\ n_post = 0
    /\ n_rule_engine = 0

\* The steps the interpreter takes by itself.
Step ==
    \/ Validate
    \/ CallGeminiUnavailable
    \/ CallGeminiPost
    \/ Parse
    \/ Fallback

Next ==
    \/ Validate
    \/ CallGeminiUnavailable
    \/ CallGeminiPost
    \/ RemoteResponds
    \/ Parse
    \/ Fallback

Spec == Init /\ [][Next]_vars

\* The same start over fewer readings (the built-in registry, two crop names),
\* for the check of progress.
LiveInit ==
    /\ Init
    /\ VALID_CROPS = LoadRegistry(NoFile)[1]
    /\ CROP_PROFILES = LoadRegistry(NoFile)[2]
    /\ soil.crop_type \in { << "w", "h", "e", "a", "t" >>, << "x", "y", "z" >> }
    /\ soil.moisture \in { 19, 25, 35 }
    /\ soil.potassium = 180
    /\ soil.ph = 70

\* The interpreter keeps running analyze_soil; nothing makes the server answer
\* (requests.post is given no timeout).
FairSpec == LiveInit /\ [][Next]_vars /\ WF_vars(Step)

(***************************************************************************)
(* Properties                                                              *)
(***************************************************************************)

Done == pc = "DONE"

\* the recommendations of the decision returned
Recs == returned[1].recommendations.l

NoRemoteClient == ~GEMINI_KEY \/ ~REQUESTS_AVAILABLE

WHEAT == << "w", "h", "e", "a", "t" >>

\* analyze_soil has returned for the reading of the end-to-end example, with
\* no remote client, wheat recognised and resolved to the built-in default
\* profile
C1_Case ==
    /\ Done
    /\ NoRemoteClient
    /\ soil = [ moisture |-> 25, nitrogen |-> 200, potassium |-> 180, ph |-> 70,
                crop_type |-> WHEAT ]
    /\ is_valid_crop(WHEAT)
    /\ get_crop_profile(WHEAT) = DefaultProfile

\* C1 as stated: the example reading yields ["Irrigate immediately", n-rec],
\* ATTENTION_NEEDED, HIGH, 6.
C1_ExampleIrrigateImmediately ==
    C1_Case =>
        /\ Recs = << "Irrigate immediately", DefaultProfile.nitrogen.recommendation >>
        /\ returned[1].action = PyStr("ATTENTION_NEEDED")
        /\ returned[1].priority = PyStr("HIGH")
        /\ returned[1].next_check_hours = PyInt(6)

\* C1 amended: the example reading yields ["Irrigate soon", n-rec] (25 is not
\* below max(20, 35 - 15) = 20), with ATTENTION_NEEDED, HIGH, 6.
C1_ExampleIrrigateSoon ==
    C1_Case =>
        /\ Recs = << "Irrigate soon", DefaultProfile.nitrogen.recommendation >>
        /\ returned[1].action = PyStr("ATTENTION_NEEDED")
        /\ returned[1].priority = PyStr("HIGH")
        /\ returned[1].next_check_hours = PyInt(6)

C1_Witness == C1_Case

\* the crop is not recognised and no registry name starts with it
C2_Case ==
    /\ Done
    /\ ~is_valid_crop(soil.crop_type)
    /\ suggest_crops(soil.crop_type, SUGGEST_LIMIT) = << >>

\* C2: an unrecognised crop without prefix match is answered INVALID_CROP,
\* confidence 0.0, recommendations ["Enter the valid crop name"], whatever the
\* remote-client configuration.
C2_InvalidCropNoSuggestion ==
    C2_Case =>
        /\ Len(returned) = 1
        /\ path = "REJECTED"
        /\ returned[1].action = PyStr("INVALID_CROP")
        /\ returned[1].confidence = PyFloat(0)
        /\ returned[1].recommendations = PyList(<< "Enter the valid crop name" >>)

\* a blank crop name, with the remote client fully configured
C2_Witness == C2_Case /\ soil.crop_type = << " " >> /\ GEMINI_KEY /\ REQUESTS_AVAILABLE

\* C3: with a recognised crop, a run that does not end in ACCEPTED raises
\* nothing and returns exactly the rule engine's decision for the reading and
\* the profile get_crop_profile resolves.
C3_FallbackIsRuleEngine ==
    /\ pc # "RAISED"
    /\ (Done /\ is_valid_crop(soil.crop_type) /\ path # "ACCEPTED") =>
           /\ path = "FALLBACK"
           /\ returned = << Evaluate(soil, get_crop_profile(soil.crop_type)) >>

\* the remote text was truncated JSON and the rule engine answered
C3_Witness ==
    /\ Done
    /\ path = "FALLBACK"
    /\ ai = StrValue(<< TruncatedDoc(GoodFields) >>)
    /\ soil.crop_type = << "c", "o", "r", "n" >>

\* the Python types the dataclass declares for its fields (an int is a float)
ExpectedTypes ==
    [ action                |-> { "str" },
      priority              |-> { "str" },
      confidence            |-> { "float", "int" },
      reasoning             |-> { "str" },
      recommendations       |-> { "list" },
      recommendations_hindi |-> { "list" },
      next_check_hours      |-> { "int" } ]

\* the fence-stripped text parses to a record with every required field, no
\* unknown field and every field of its declared type
WellTypedReply(v) ==
    /\ v.kind = "str"
    /\ LET loaded == json_loads(StripFences(v.text))
       IN  /\ loaded.ok
           /\ loaded.value.t = "object"
           /\ RequiredFields \subseteq DOMAIN loaded.value.fields
           /\ DOMAIN loaded.value.fields \subseteq RequiredFields \cup OptionalFields
           /\ \A f \in RequiredFields : loaded.value.fields[f].type \in ExpectedTypes[f]

\* C4: the run ends ACCEPTED only on a well-typed reply; any other reply goes
\* to FALLBACK and is never returned.
C4_AcceptedOnlyWellTyped ==
    /\ path = "ACCEPTED" => WellTypedReply(ai)
    /\ (Done /\ n_post = 1 /\ ~WellTypedReply(ai)) => path = "FALLBACK"

\* the rule engine answered a reading whose moisture equals the profile's minimum
C5_Case ==
    /\ Done
    /\ path = "FALLBACK"
    /\ soil.moisture = moisture_min(get_crop_profile(soil.crop_type))

NoMoistureRecommendation ==
    \A i \in 1..Len(Recs) : Recs[i] \notin { "Irrigate immediately", "Irrigate soon" }

\* C5 as stated: moisture equal to moisture.min gives no moisture
\* recommendation, for any moisture.min.
C5_AtMinNoMoistureAdvice == C5_Case => NoMoistureRecommendation

\* C5 amended: moisture equal to moisture.min gives no moisture
\* recommendation when moisture.min is at least 20.
C5_AtMinNoMoistureAdviceFrom20 ==
    (C5_Case /\ moisture_min(get_crop_profile(soil.crop_type)) >= 20)
        => NoMoistureRecommendation

\* a profile whose minimum is exactly 20, read at 20
C5_Witness == C5_Case /\ soil.moisture = 20

\* the number of recommendations the rule engine gives with the pH replaced
RecCountWithPh(ph) ==
    Len(Evaluate([ soil EXCEPT !.ph = ph ],
                 get_crop_profile(soil.crop_type)).recommendations.l)

\* C6: a rule-engine decision has at least one recommendation; one gives
\* ALL_GOOD, LOW, 12 and two or more give ATTENTION_NEEDED, HIGH, 6; the pH
\* does not change the count.
C6_ActionFromCount ==
    (Done /\ path = "FALLBACK") =>
        LET d == returned[1]
            n == Len(d.recommendations.l)
        IN  /\ n >= 1
            /\ n = 1 => /\ d.action = PyStr("ALL_GOOD")
                        /\ d.priority = PyStr("LOW")
                        /\ d.next_check_hours = PyInt(12)
            /\ n >= 2 => /\ d.action = PyStr("ATTENTION_NEEDED")
                         /\ d.priority = PyStr("HIGH")
                         /\ d.next_check_hours = PyInt(6)
            /\ \A ph \in PhValues : RecCountWithPh(ph) = n

\* one real deficiency and a pH outside the range: still ALL_GOOD
C6_Witness ==
    /\ Done
    /\ path = "FALLBACK"
    /\ Recs = << "Irrigate soon" >>
    /\ soil.ph = 55
    /\ get_crop_profile(soil.crop_type) = DefaultProfile

\* C7: every invocation of analyze_soil eventually reaches DONE.
C7_EventuallyDone == <>Done

\* the crop name is a case or whitespace variant of a name the registry holds
InRegistryUpToCase(name) ==
    \E c \in VALID_CROPS : Lower(Strip(c)) = Lower(Strip(name))

\* C8: a name the registry holds, in any casing or padding, is never answered
\* INVALID_CROP.
C8_RegistryNameNeverRejected ==
    (Done /\ InRegistryUpToCase(soil.crop_type)) =>
        /\ is_valid_crop(soil.crop_type)
        /\ returned[1].action # PyStr("INVALID_CROP")

\* the data model's domain of a decision
InDomain(d) ==
    /\ d.action.type = "str"
    /\ d.action.s \in { "ATTENTION_NEEDED", "ALL_GOOD", "INVALID_CROP" }
    /\ d.priority.type = "str"
    /\ d.priority.s \in { "HIGH", "LOW" }
    /\ d.confidence.type \in { "float", "int" }
    /\ d.confidence.n >= 0
    /\ d.confidence.n <= 100
    /\ d.next_check_hours.type = "int"
    /\ d.next_check_hours.n >= 0

\* C9: every decision returned, on every path, is in the data model's domain.
C9_DecisionInDomain == Done => InDomain(returned[1])

\* C10: the remote call is made at most once and only for a valid crop; a
\* REJECTED run makes no request and does not run the rule engine, an ACCEPTED
\* run does not run the rule engine.
C10_AtMostOneRemoteAttempt ==
    /\ n_call_gemini <= 1
    /\ n_post <= 1
    /\ n_call_gemini > 0 => (is_valid_crop(soil.crop_type) /\ pc # "VALIDATING")
    /\ n_post <= n_call_gemini
    /\ path = "REJECTED" => (n_call_gemini = 0 /\ n_post = 0 /\ n_rule_engine = 0)
    /\ path = "ACCEPTED" => (n_post = 1 /\ n_rule_engine = 0)

\* a reply that does not parse was not asked for again
C10_Witness ==
    /\ Done
    /\ path = "FALLBACK"
    /\ n_post = 1
    /\ n_rule_engine = 1
    /\ ai = StrValue(<< PROSE >>)

====
